---- MODULE Spec2Model ----
(***************************************************************************)
(* Model of the Agentic Mesh simulation component (src/src/App.tsx):       *)
(* the React state of AgenticMeshSimulation, the two remote providers      *)
(* (callGeminiOrchestrator, callGeminiSummary), the run started by         *)
(* startSimulation with its five setTimeout callbacks, generateReport and  *)
(* resetSimulation.                                                        *)
(*                                                                         *)
(* One action is one task of the browser's event loop: a click handler, a  *)
(* timer callback, or the continuation of an await.  A log entry's id and  *)
(* timestamp (Date.now() + Math.random(), wall-clock text) are left out of *)
(* the entry: no handler reads them.                                       *)
(***************************************************************************)
EXTENDS Naturals, Sequences, FiniteSets, TLC

VARIABLES
    apiKey,             \* import.meta.env.VITE_GEMINI_API_KEY || ""
    mounted,            \* the mount effect (useEffect, []) has run
    crashed,            \* a state updater threw while rendering: tree unmounted
    agents,             \* useState<Agent[]>
    logs,               \* useState<LogEntry[]>, most recent first
    simulationStep,     \* useState<number>
    isSimulating,       \* useState(false)
    isOrchestrating,    \* useState(false)
    userMission,        \* useState("Plan a 3-day trip to Tokyo")
    missionReport,      \* useState<string | null>
    isGeneratingReport, \* useState(false)
    planReq,            \* a callGeminiOrchestrator call is awaited
    reportReq,          \* a callGeminiSummary call is awaited
    timers,             \* pending setTimeout callbacks, in firing order
    event,              \* history: the handler that ran last
    planFailed,         \* history: the last plan call took the catch branch
    resetDuringRun      \* history: reset ran since the last accepted start

vars == <<apiKey, mounted, crashed, agents, logs, simulationStep, isSimulating,
          isOrchestrating, userMission, missionReport, isGeneratingReport,
          planReq, reportReq, timers, event, planFailed, resetDuringRun>>

\* The React state of the component (what a render reads).
store == <<agents, logs, simulationStep, isSimulating, isOrchestrating,
           userMission, missionReport, isGeneratingReport>>

----------------------------------------------------------------------------
\* Bounds of the model

\* Longest agents array a parsed remote plan carries.
MaxPlanLen == 3

----------------------------------------------------------------------------
\* Constants of the program

CANVAS_WIDTH == 800
CANVAS_HEIGHT == 500
CENTER_X == CANVAS_WIDTH \div 2
CENTER_Y == CANVAS_HEIGHT \div 2

\* [..].slice(0, 8) in addLog
LogCap == 8

\* The delays of the five setTimeout calls of startSimulation, in source order.
StageDelays == <<1500, 3500, 5500, 8500, 11500>>

Min(a, b) == IF a < b THEN a ELSE b

\* The values the mission input takes ("" disables the start button).
Missions == {"", "Plan a 3-day trip to Tokyo", "Debug code"}

\* The credential: absent by default, or some key.
ApiKeys == {"", "key"}

----------------------------------------------------------------------------
\* Remote plan provider

FallbackPlan ==
    [hasAgents |-> TRUE,
     agents |-> << [name |-> "Logic Bot", specialty |-> "Planning",
                    task |-> "Analyzing requirements"],
                   [name |-> "Resource Bot", specialty |-> "Logistics",
                    task |-> "Gathering resources"],
                   [name |-> "Review Bot", specialty |-> "Quality Control",
                    task |-> "Verifying output"] >>]

\* The i-th record of a plan the remote service wrote.
RemoteAgent(i) ==
    [name |-> "Agent " \o ToString(i), specialty |-> "Skill " \o ToString(i),
     task |-> "Task " \o ToString(i)]

\* What JSON.parse can return for the response text: an object with an agents
\* array of any length, or a value with no agents property.
ParsedValues ==
    {[hasAgents |-> FALSE, agents |-> <<>>]} \cup
    {[hasAgents |-> TRUE, agents |-> [i \in 1..n |-> RemoteAgent(i)]] :
        n \in 0..MaxPlanLen}

\* A response that passes every check of callGeminiOrchestrator and whose text
\* parses to p.
PlanResponse(p) ==
    [fetchOk |-> TRUE, ok |-> TRUE, bodyIsJson |-> TRUE, hasText |-> TRUE,
     textIsJson |-> TRUE, parsed |-> p]

\* Outcomes of the plan request: the text parses to some value; or fetch
\* rejects, or response.ok is false, or response.json() rejects, or the envelope
\* holds no candidates[0].content.parts[0].text, or that text is not JSON.
PlanResponses ==
    {PlanResponse(p) : p \in ParsedValues} \cup
    {[PlanResponse(FallbackPlan) EXCEPT ![f] = FALSE] :
        f \in {"fetchOk", "ok", "bodyIsJson", "hasText", "textIsJson"}}

\* The catch branch of callGeminiOrchestrator is taken.
PlanCallFails(key, resp) ==
    \/ key = ""
    \/ ~resp.fetchOk
    \/ ~resp.ok
    \/ ~resp.bodyIsJson
    \/ ~resp.hasText
    \/ ~resp.textIsJson

callGeminiOrchestratorNoFallback(key, resp) ==
    IF PlanCallFails(key, resp) THEN [hasAgents |-> TRUE, agents |-> <<>>]
    ELSE resp.parsed

callGeminiOrchestrator(key, resp) ==
    IF key = "" THEN FallbackPlan
    ELSE IF ~resp.fetchOk THEN FallbackPlan
    ELSE IF ~resp.ok THEN FallbackPlan
    ELSE IF ~resp.bodyIsJson THEN FallbackPlan
    ELSE IF ~resp.hasText THEN FallbackPlan
    ELSE IF ~resp.textIsJson THEN FallbackPlan
    ELSE resp.parsed

----------------------------------------------------------------------------
\* Remote summary provider

FallbackSummary ==
    "Mission completed successfully. Agents collaborated to fulfill the user request."

\* The text of a summary response: some prose, or the empty string.
SummaryTexts == {"The agents split the mission and finished it.", ""}

\* A response whose envelope holds text t.
SummaryResponse(t) ==
    [fetchOk |-> TRUE, ok |-> TRUE, bodyIsJson |-> TRUE, hasText |-> TRUE,
     text |-> t]

\* Outcomes of the summary request: the envelope holds some text; or fetch
\* rejects, or response.json() rejects, or the envelope holds no
\* candidates[0].content.parts[0].text, which is also what the body of a
\* non-success response looks like (callGeminiSummary never reads response.ok).
SummaryResponses ==
    {SummaryResponse(t) : t \in SummaryTexts} \cup
    {[SummaryResponse("") EXCEPT ![f] = FALSE] :
        f \in {"fetchOk", "bodyIsJson", "hasText"}} \cup
    {[SummaryResponse("") EXCEPT !.ok = FALSE, !.hasText = FALSE]}

\* The catch branch of callGeminiSummary is taken.
SummaryCallFails(key, resp) ==
    \/ key = ""
    \/ ~resp.fetchOk
    \/ ~resp.bodyIsJson
    \/ ~resp.hasText

callGeminiSummaryNoKeyCheck(key, resp) ==
    IF ~resp.fetchOk THEN FallbackSummary
    ELSE IF ~resp.bodyIsJson THEN FallbackSummary
    ELSE IF ~resp.hasText THEN FallbackSummary
    ELSE resp.text

callGeminiSummary(key, resp) ==
    IF key = "" THEN FallbackSummary
    ELSE IF ~resp.fetchOk THEN FallbackSummary
    ELSE IF ~resp.bodyIsJson THEN FallbackSummary
    ELSE IF ~resp.hasText THEN FallbackSummary
    ELSE resp.text

\* missionReport: null, or a string.
NullReport == [isNull |-> TRUE, text |-> ""]
Report(s) == [isNull |-> FALSE, text |-> s]
\* !missionReport
Falsy(r) == r.isNull \/ r.text = ""

----------------------------------------------------------------------------
\* Agent/log state store

Template(id, name, type, x, y, specialty, task) ==
    [id |-> id, name |-> name, type |-> type, x |-> x, y |-> y,
     status |-> "idle", specialty |-> specialty, currentTask |-> task]

initialAgents ==
    << Template("1", "Orchestrator", "Orchestrator", CENTER_X, CENTER_Y,
                "Coordination", "Awaiting Mission"),
       Template("2", "Specialist A", "Specialist", CENTER_X - 100, CENTER_Y - 80,
                "Pending...", "Standby"),
       Template("3", "Specialist B", "Specialist", CENTER_X + 100, CENTER_Y - 80,
                "Pending...", "Standby"),
       Template("4", "Worker A", "Worker", CENTER_X - 120, CENTER_Y + 60,
                "Pending...", "Standby"),
       Template("5", "Support Bot", "Worker", CENTER_X + 120, CENTER_Y + 60,
                "Utilities", "Standby") >>

Entry(source, message) == [source |-> source, message |-> message]

addLogUncapped(l, source, message) == <<Entry(source, message)>> \o l

\* [{...}, ...prev].slice(0, 8)
addLog(l, source, message) ==
    SubSeq(<<Entry(source, message)>> \o l, 1, Min(Len(l) + 1, LogCap))

updateAgentStatusFilter(ags, id, status) ==
    LET hit == SelectSeq(ags, LAMBDA a : a.id = id)
    IN  [i \in DOMAIN hit |-> [hit[i] EXCEPT !.status = status]]

\* prev.map(a => a.id === id ? { ...a, status } : a)
updateAgentStatus(ags, id, status) ==
    [i \in DOMAIN ags |->
        IF ags[i].id = id THEN [ags[i] EXCEPT !.status = status] ELSE ags[i]]

\* { ...newAgents[i], name, specialty, currentTask } for plan record p
Assign(a, p) ==
    [a EXCEPT !.name = p.name, !.specialty = p.specialty, !.currentTask = p.task]

\* The updater startSimulation passes to setAgents once the plan is known:
\* plan record k, when present, overwrites the agent at position k + 1.
ApplyPlan(ags, plan) ==
    [i \in DOMAIN ags |->
        IF i \in 2..4 /\ i - 1 <= Len(plan.agents)
        THEN Assign(ags[i], plan.agents[i - 1]) ELSE ags[i]]

\* names.join(', ')
RECURSIVE Join(_)
Join(names) ==
    IF names = <<>> THEN ""
    ELSE IF Len(names) = 1 THEN names[1]
    ELSE names[1] \o ", " \o Join(Tail(names))

Names(plan) == [i \in DOMAIN plan.agents |-> plan.agents[i].name]

----------------------------------------------------------------------------
\* The callbacks startSimulation schedules.  A callback whose argument
\* expression reads a plan record that is missing throws there: the state
\* updates made before that point stand, the addLog call is never reached.

\* 1500 ms: addLog('Orchestrator LLM', `Decomposed mission. ...`)
RoleAssignmentLog(l, plan) ==
    addLog(l, "Orchestrator LLM",
           "Decomposed mission. Assigning roles: " \o Join(Names(plan)) \o ".")

\* 3500 ms: reads agents[0].specialty and agents[1].specialty
RegistryLog(l, plan) ==
    IF Len(plan.agents) < 2 THEN l
    ELSE addLog(l, "Registry",
                "Lookup successful: Found specialized agents for "
                \o plan.agents[1].specialty \o " and "
                \o plan.agents[2].specialty \o ".")

DistributionAgentsThreeCalls(ags) ==
    updateAgentStatus(
        updateAgentStatus(
            updateAgentStatus(ags, "1", "communicating"),
            "2", "working"),
        "3", "working")

\* 5500 ms
DistributionAgents(ags) ==
    updateAgentStatus(
        updateAgentStatus(
            updateAgentStatus(
                updateAgentStatus(ags, "1", "communicating"),
                "2", "working"),
            "3", "working"),
        "4", "working")

\* 8500 ms
ExecutionAgents(ags) ==
    updateAgentStatus(updateAgentStatus(ags, "2", "communicating"), "5", "working")

\* 8500 ms: reads agents[0].name/.task, then agents[1].name/.task
ExecutionLogs(l, plan) ==
    IF Len(plan.agents) < 1 THEN l
    ELSE LET first == addLog(l, plan.agents[1].name,
                             plan.agents[1].task \o " - Complete.")
         IN  IF Len(plan.agents) < 2 THEN first
             ELSE addLog(first, plan.agents[2].name,
                         plan.agents[2].task \o " - In Progress.")

CompletionAgentsByStatusCalls(ags) ==
    updateAgentStatus(
        updateAgentStatus(
            updateAgentStatus(
                updateAgentStatus(ags, "1", "success"),
                "2", "success"),
            "3", "success"),
        "4", "success")

\* 11500 ms: prev.map(a => ({ ...a, status: 'success' }))
CompletionAgents(ags) ==
    [i \in DOMAIN ags |-> [ags[i] EXCEPT !.status = "success"]]

CompletionLog(l) ==
    addLog(l, "Monitor", "Workflow completed successfully. Results aggregated.")

\* The five setTimeout calls, each closing over the plan of its run.
ScheduleTimers(plan) ==
    [i \in 1..Len(StageDelays) |-> [delay |-> StageDelays[i], plan |-> plan]]

----------------------------------------------------------------------------
\* State after construction: the useState initial values, nothing mounted yet.

Init ==
    /\ apiKey \in ApiKeys
    /\ mounted = FALSE
    /\ crashed = FALSE
    /\ agents = <<>>
    /\ logs = <<>>
    /\ simulationStep = 0
    /\ isSimulating = FALSE
    /\ isOrchestrating = FALSE
    /\ userMission = "Plan a 3-day trip to Tokyo"
    /\ missionReport = NullReport
    /\ isGeneratingReport = FALSE
    /\ planReq = FALSE
    /\ reportReq = FALSE
    /\ timers = <<>>
    /\ event = "init"
    /\ planFailed = FALSE
    /\ resetDuringRun = FALSE

\* isSimulating || isOrchestrating: the guard of startSimulation and the
\* disabled condition of the mission input and the start button.
BusyOnlySimulating == isSimulating

BusyOnlyOrchestrating == isOrchestrating

Busy == isSimulating \/ isOrchestrating

\* With no credential a provider throws before its first await, so the
\* continuation of the caller's await is a microtask: it runs before any other
\* click or timer.
MicrotaskPending == apiKey = "" /\ (planReq \/ reportReq)

\* The page takes clicks: mounted, not torn down, no microtask queued.
Interactive == mounted /\ ~crashed /\ ~MicrotaskPending

resetSimulationKeepsLogs ==
    /\ agents' = initialAgents
    /\ simulationStep' = 0
    /\ logs' = addLog(logs, "System", "Agentic Mesh Online. Enter a mission to begin.")
    /\ missionReport' = NullReport
    /\ UNCHANGED <<isSimulating, isOrchestrating, userMission, isGeneratingReport,
                   planReq, reportReq, timers, apiKey, crashed, planFailed>>

resetSimulationClearsFlags ==
    /\ agents' = initialAgents
    /\ simulationStep' = 0
    /\ logs' = addLog(<<>>, "System", "Agentic Mesh Online. Enter a mission to begin.")
    /\ missionReport' = NullReport
    /\ isSimulating' = FALSE
    /\ isOrchestrating' = FALSE
    /\ UNCHANGED <<userMission, isGeneratingReport, planReq, reportReq, timers,
                   apiKey, crashed, planFailed>>

resetSimulationCancelsTimers ==
    /\ agents' = initialAgents
    /\ simulationStep' = 0
    /\ logs' = addLog(<<>>, "System", "Agentic Mesh Online. Enter a mission to begin.")
    /\ missionReport' = NullReport
    /\ timers' = <<>>
    /\ UNCHANGED <<isSimulating, isOrchestrating, userMission, isGeneratingReport,
                   planReq, reportReq, apiKey, crashed, planFailed>>

resetSimulation ==
    /\ agents' = initialAgents
    /\ simulationStep' = 0
    /\ logs' = addLog(<<>>, "System", "Agentic Mesh Online. Enter a mission to begin.")
    /\ missionReport' = NullReport
    /\ UNCHANGED <<isSimulating, isOrchestrating, userMission, isGeneratingReport,
                   planReq, reportReq, timers, apiKey, crashed, planFailed>>

\* useEffect(() => { resetSimulation(); }, [])
Mount ==
    /\ ~mounted
    /\ resetSimulation
    /\ mounted' = TRUE
    /\ event' = "mount"
    /\ UNCHANGED resetDuringRun

\* The Reset button (always available).
Reset ==
    /\ Interactive
    /\ resetSimulation
    /\ event' = "reset"
    /\ resetDuringRun' = (resetDuringRun \/ isSimulating \/ isOrchestrating)
    /\ UNCHANGED mounted

\* onChange of the mission input, which is disabled while a run is in progress.
SetMission(m) ==
    /\ Interactive
    /\ ~Busy
    /\ userMission' = m
    /\ event' = "setMission"
    /\ UNCHANGED <<apiKey, mounted, crashed, agents, logs, simulationStep,
                   isSimulating, isOrchestrating, missionReport,
                   isGeneratingReport, planReq, reportReq, timers, planFailed,
                   resetDuringRun>>

\* startSimulation up to its await.
startSimulation ==
    IF Busy
    THEN /\ event' = "startIgnored"
         /\ UNCHANGED <<apiKey, mounted, crashed, agents, logs, simulationStep,
                        isSimulating, isOrchestrating, userMission, missionReport,
                        isGeneratingReport, planReq, reportReq, timers,
                        planFailed, resetDuringRun>>
    ELSE /\ isOrchestrating' = TRUE
         /\ missionReport' = NullReport
         /\ simulationStep' = 0
         /\ logs' = addLog(
                      addLog(<<>>, "User",
                             "Request received: \"" \o userMission \o "\""),
                      "Orchestrator LLM",
                      "Consulting Gemini API for agent decomposition...")
         /\ planReq' = TRUE
         /\ event' = "start"
         /\ resetDuringRun' = FALSE
         /\ UNCHANGED <<apiKey, mounted, crashed, agents, isSimulating,
                        userMission, isGeneratingReport, reportReq, timers,
                        planFailed>>

\* A click on the Start Mission button: disabled={isSimulating ||
\* isOrchestrating || !userMission}; a disabled button runs no handler.
StartClick ==
    /\ Interactive
    /\ IF Busy \/ userMission = ""
       THEN /\ event' = "startIgnored"
            /\ UNCHANGED <<apiKey, mounted, crashed, agents, logs,
                           simulationStep, isSimulating, isOrchestrating,
                           userMission, missionReport, isGeneratingReport,
                           planReq, reportReq, timers, planFailed,
                           resetDuringRun>>
       ELSE startSimulation

\* The plan request settles with resp and startSimulation goes on after its
\* await.  A plan with no agents array makes the setAgents updater throw while
\* rendering; nothing catches it, so the tree is torn down (the timers are
\* scheduled all the same, and their state updates go nowhere).
PlanResolve(resp) ==
    /\ planReq
    /\ LET plan == callGeminiOrchestrator(apiKey, resp) IN
        /\ planFailed' = PlanCallFails(apiKey, resp)
        /\ planReq' = FALSE
        /\ timers' = timers \o ScheduleTimers(plan)
        /\ IF plan.hasAgents
           THEN /\ agents' = ApplyPlan(agents, plan)
                /\ isOrchestrating' = FALSE
                /\ isSimulating' = TRUE
                /\ simulationStep' = 1
                /\ event' = "planApplied"
                /\ UNCHANGED crashed
           ELSE /\ crashed' = TRUE
                /\ event' = "planCrashed"
                /\ UNCHANGED <<agents, isOrchestrating, isSimulating,
                               simulationStep>>
    /\ UNCHANGED <<apiKey, mounted, logs, userMission, missionReport,
                   isGeneratingReport, reportReq, resetDuringRun>>

\* The pending timer that is due first fires.
FireTimer ==
    /\ timers # <<>>
    /\ ~MicrotaskPending
    /\ timers' = Tail(timers)
    /\ event' = "timer"
    /\ LET t == Head(timers) IN
        IF crashed
        THEN UNCHANGED <<simulationStep, agents, logs, isSimulating>>
        ELSE CASE t.delay = 1500 ->
                    /\ simulationStep' = 2
                    /\ agents' = updateAgentStatus(agents, "1", "working")
                    /\ logs' = RoleAssignmentLog(logs, t.plan)
                    /\ UNCHANGED isSimulating
               [] t.delay = 3500 ->
                    /\ simulationStep' = 3
                    /\ logs' = RegistryLog(logs, t.plan)
                    /\ UNCHANGED <<agents, isSimulating>>
               [] t.delay = 5500 ->
                    /\ simulationStep' = 4
                    /\ agents' = DistributionAgents(agents)
                    /\ logs' = addLog(logs, "Mesh",
                                      "Task protocols distributed to agents.")
                    /\ UNCHANGED isSimulating
               [] t.delay = 8500 ->
                    /\ simulationStep' = 5
                    /\ agents' = ExecutionAgents(agents)
                    /\ logs' = ExecutionLogs(logs, t.plan)
                    /\ UNCHANGED isSimulating
               [] t.delay = 11500 ->
                    /\ simulationStep' = 6
                    /\ agents' = CompletionAgents(agents)
                    /\ logs' = CompletionLog(logs)
                    /\ isSimulating' = FALSE
    /\ UNCHANGED <<apiKey, mounted, crashed, isOrchestrating, userMission,
                   missionReport, isGeneratingReport, planReq, reportReq,
                   planFailed, resetDuringRun>>

\* The Generate Mission Report button is rendered when
\* simulationStep === 6 && !missionReport.
ReportButtonShown == simulationStep = 6 /\ Falsy(missionReport)

\* A click on it (disabled={isGeneratingReport}): generateReport up to its await.
GenerateReport ==
    /\ Interactive
    /\ ReportButtonShown
    /\ ~isGeneratingReport
    /\ isGeneratingReport' = TRUE
    /\ reportReq' = TRUE
    /\ event' = "generateReport"
    /\ UNCHANGED <<apiKey, mounted, crashed, agents, logs, simulationStep,
                   isSimulating, isOrchestrating, userMission, missionReport,
                   planReq, timers, planFailed, resetDuringRun>>

\* The summary request settles with resp and generateReport goes on.  On a
\* tree that was torn down its two state updates go nowhere.
ReportResolve(resp) ==
    /\ reportReq
    /\ reportReq' = FALSE
    /\ event' = IF crashed THEN "reportDropped"
                ELSE IF SummaryCallFails(apiKey, resp) THEN "reportFallback"
                ELSE "reportStored"
    /\ IF crashed
       THEN UNCHANGED <<missionReport, isGeneratingReport>>
       ELSE /\ missionReport' = Report(callGeminiSummary(apiKey, resp))
            /\ isGeneratingReport' = FALSE
    /\ UNCHANGED <<apiKey, mounted, crashed, agents, logs, simulationStep,
                   isSimulating, isOrchestrating, userMission, planReq, timers,
                   planFailed, resetDuringRun>>

Next ==
    \/ Mount
    \/ Reset
    \/ \E m \in Missions : SetMission(m)
    \/ StartClick
    \/ \E resp \in PlanResponses : PlanResolve(resp)
    \/ FireTimer
    \/ GenerateReport
    \/ \E resp \in SummaryResponses : ReportResolve(resp)

Spec == Init /\ [][Next]_vars

\* A scheduled setTimeout callback fires once it is due.
FairSpec == Spec /\ WF_vars(FireTimer)

----------------------------------------------------------------------------
\* addLog as a function of any log the store can hold: the log is drawn from
\* the sequences of at most LogCap entries and addLog is applied to it.

SampleEntries ==
    {Entry("Mesh", "Task protocols distributed to agents."),
     Entry("Monitor", "Workflow completed successfully. Results aggregated.")}

AddLogInit ==
    /\ logs \in UNION {[1..n -> SampleEntries] : n \in 0..LogCap}
    /\ apiKey = ""
    /\ mounted = TRUE
    /\ crashed = FALSE
    /\ agents = initialAgents
    /\ simulationStep = 0
    /\ isSimulating = FALSE
    /\ isOrchestrating = FALSE
    /\ userMission = "Plan a 3-day trip to Tokyo"
    /\ missionReport = NullReport
    /\ isGeneratingReport = FALSE
    /\ planReq = FALSE
    /\ reportReq = FALSE
    /\ timers = <<>>
    /\ event = "init"
    /\ planFailed = FALSE
    /\ resetDuringRun = FALSE

AddLogStep ==
    /\ \E e \in SampleEntries : logs' = addLog(logs, e.source, e.message)
    /\ event' = IF Len(logs) = LogCap THEN "addLogFull" ELSE "addLog"
    /\ UNCHANGED <<apiKey, mounted, crashed, agents, simulationStep,
                   isSimulating, isOrchestrating, userMission, missionReport,
                   isGeneratingReport, planReq, reportReq, timers, planFailed,
                   resetDuringRun>>

AddLogSpec == AddLogInit /\ [][AddLogStep]_vars

----------------------------------------------------------------------------
\* Properties

\* C1: whenever the stage is 6, all five agents have status success.
C1_CompletedAllSuccess ==
    simulationStep = 6 =>
        /\ Len(agents) = 5
        /\ \A i \in 1..5 : agents[i].status = "success"

\* A run that was reset on the way has reached stage 6.
C1_Witness == simulationStep = 6 /\ resetDuringRun /\ event = "timer"

\* C2: the log never holds more than 8 entries: addLog puts the new entry first,
\* keeps the earlier entries in order behind it and drops what falls beyond
\* the 8th place.
C2_LogCapped ==
    /\ [](Len(logs) <= 8)
    /\ [][ /\ Len(logs') = Min(Len(logs) + 1, 8)
           /\ logs'[1] \in SampleEntries
           /\ \A i \in 2..Len(logs') : logs'[i] = logs[i - 1] ]_vars

\* An entry was added to a log that already held 8: the oldest was dropped.
C2_Witness == event = "addLogFull" /\ Len(logs) = 8

\* C3: once mounted there are exactly five agents, ids "1".."5" in order, with
\* the fixed role of each id.
C3_FiveFixedAgents ==
    mounted =>
        /\ Len(agents) = 5
        /\ \A i \in 1..5 : agents[i].id = ToString(i)
        /\ agents[1].type = "Orchestrator"
        /\ agents[2].type = "Specialist"
        /\ agents[3].type = "Specialist"
        /\ agents[4].type = "Worker"
        /\ agents[5].type = "Worker"

\* A plan has been applied, the run was reset and its timers went on to
\* change statuses.
C3_Witness ==
    /\ resetDuringRun
    /\ event = "timer"
    /\ simulationStep = 5
    /\ agents[2].name = "Agent 1"

\* C4: when the plan call failed, the plan applied gives agents 2, 3 and 4 the
\* three fallback triples in order, and the run goes on as after a success:
\* stage 1, simulating, the five callbacks scheduled.
C4_FailedPlanAppliesFallback ==
    (event = "planApplied" /\ planFailed) =>
        /\ agents[2].name = "Logic Bot"
        /\ agents[2].specialty = "Planning"
        /\ agents[2].currentTask = "Analyzing requirements"
        /\ agents[3].name = "Resource Bot"
        /\ agents[3].specialty = "Logistics"
        /\ agents[3].currentTask = "Gathering resources"
        /\ agents[4].name = "Review Bot"
        /\ agents[4].specialty = "Quality Control"
        /\ agents[4].currentTask = "Verifying output"
        /\ simulationStep = 1
        /\ isSimulating
        /\ ~isOrchestrating
        /\ Len(timers) = 5
        /\ \A i \in 1..5 : Len(timers[i].plan.agents) = 3

\* A request made with a credential failed and the fallback was applied in a
\* run started after an earlier run had completed.
C4_Witness ==
    /\ event = "planApplied"
    /\ planFailed
    /\ apiKey # ""
    /\ agents[1].status = "success"

\* C5: a start request made while a run is in progress changes nothing and
\* schedules nothing.
C5_StartWhileBusyNoOp ==
    [][ ((isSimulating \/ isOrchestrating) /\ event' \in {"start", "startIgnored"})
            => UNCHANGED <<store, timers, planReq, reportReq>> ]_vars

\* A start request was ignored at a stage between 1 and 5.
C5_Witness ==
    /\ event = "startIgnored"
    /\ isSimulating
    /\ simulationStep \in 1..5

\* C6: right after reset the store holds the five template agents, all idle,
\* stage 0, no report, and the one readiness entry.
C6_ResetPostState ==
    event = "reset" =>
        /\ agents = initialAgents
        /\ \A i \in 1..5 : agents[i].status = "idle"
        /\ simulationStep = 0
        /\ missionReport.isNull
        /\ logs = << [source |-> "System",
                      message |-> "Agentic Mesh Online. Enter a mission to begin."] >>

\* Reset ran in the middle of a run, with callbacks still pending.
C6_Witness == event = "reset" /\ isSimulating /\ Len(timers) = 2

\* C7 as claimed: in a run in progress the stage changes only by a timer
\* callback, and then to the next higher value.
C7_StageOnlyAdvancesByOne ==
    [][ isSimulating =>
            \/ simulationStep' = simulationStep
            \/ event' = "timer" /\ simulationStep' = simulationStep + 1 ]_vars

\* C7 amended: in a run in progress a start or generate-report request never
\* changes the stage; a timer callback raises it, by one unless a reset put it
\* back to 0; reset is the one request that changes it, to 0.
C7_StageChanges ==
    [][ isSimulating =>
            \/ simulationStep' = simulationStep
            \/ /\ event' = "timer"
               /\ simulationStep' > simulationStep
               /\ \/ simulationStep' = simulationStep + 1
                  \/ simulationStep = 0 /\ resetDuringRun
            \/ event' = "reset" /\ simulationStep' = 0 ]_vars

\* After a reset at a later stage the next callback took the stage from 0 to 4.
C7_Witness ==
    /\ resetDuringRun
    /\ event = "timer"
    /\ simulationStep = 4
    /\ agents[1].status = "communicating"
    /\ Len(logs) = 2

\* The stage a callback sets, from its delay.
StageOfDelay(d) == 1 + (CHOOSE i \in 1..5 : StageDelays[i] = d)

\* C8: reset leaves every pending callback and the pending plan continuation
\* in place, and a callback that fires after a reset still sets its stage.
C8_ResetKeepsRun ==
    [][ /\ event' = "reset" =>
              UNCHANGED <<timers, planReq, isSimulating, isOrchestrating>>
        /\ (event' = "timer" /\ resetDuringRun /\ ~crashed) =>
              /\ timers # <<>>
              /\ simulationStep' = StageOfDelay(Head(timers).delay) ]_vars

\* After a reset, with no new start, the stage is above 0 and an agent is
\* not idle.
C8_Witness ==
    /\ resetDuringRun
    /\ isSimulating
    /\ simulationStep > 0
    /\ \E i \in 1..5 : agents[i].status # "idle"

\* C9 as claimed: a report is requested only at stage 6, with no request in
\* flight, and with no report stored since the last reset or start.
C9_ReportOncePerRun ==
    [][ event' = "generateReport" =>
            /\ simulationStep = 6
            /\ ~reportReq
            /\ missionReport.isNull ]_vars

\* C10 as claimed: every plan the provider returned to startSimulation is
\* exactly three records.
C10_PlanIsThreeRecords ==
    \A i \in 1..Len(timers) :
        /\ timers[i].plan.hasAgents
        /\ Len(timers[i].plan.agents) = 3

C12_StageStatuses ==
    /\ simulationStep = 2 => agents[1].status = "working"
    /\ simulationStep = 4 =>
          /\ agents[1].status = "communicating"
          /\ agents[2].status = "working"
          /\ agents[3].status = "working"
          /\ agents[4].status = "working"
    /\ simulationStep = 5 =>
          /\ agents[2].status = "communicating"
          /\ agents[5].status = "working"

\* Stage 4 was entered by the callback of a run that had been reset, from idle
\* agents.
C12_Witness ==
    /\ simulationStep = 4
    /\ resetDuringRun
    /\ agents[5].status = "idle"
    /\ agents[4].status = "working"

\* C13 as claimed: when a run that no reset interrupted is at stage 6, the log
\* holds the run's 8 entries, the Monitor completion entry first and the User
\* request entry last.
C13_CompletedLogHoldsRun ==
    (simulationStep = 6 /\ ~resetDuringRun) =>
        /\ Len(logs) = 8
        /\ logs[1] = [source |-> "Monitor",
                      message |-> "Workflow completed successfully. Results aggregated."]
        /\ logs[Len(logs)].source = "User"

\* C14 as claimed: once the plan request of an accepted start has resolved,
\* a state with stage 6 and the simulating flag cleared follows, whatever
\* resets happen.
C14_ResolvedRunCompletes ==
    (event \in {"planApplied", "planCrashed"})
        ~> (simulationStep = 6 /\ ~isSimulating)

\* C15 as claimed: after a reset during a run, while callbacks of that run are
\* still pending, a start request is accepted, so that callbacks of two runs
\* are pending together.
C15_StartAcceptedAfterReset ==
    [][ (resetDuringRun /\ timers # <<>> /\ ~crashed /\ userMission # ""
            /\ event' \in {"start", "startIgnored"})
            => event' = "start" ]_vars

\* C15 amended: a start request is accepted only when no callback is pending
\* and no plan request is awaited, so the pending callbacks are the (at most
\* five) callbacks of one run and all hold the same plan.
C15_OneRunPending ==
    /\ [](/\ Len(timers) <= 5
          /\ \A i, j \in 1..Len(timers) : timers[i].plan = timers[j].plan
          /\ \A i, j \in 1..Len(timers) : i < j => timers[i].delay < timers[j].delay
          /\ planReq => timers = <<>>)
    /\ [][ event' = "start" => (timers = <<>> /\ ~planReq) ]_vars

\* After a reset during a run, with callbacks pending, a start request was
\* made and ignored.
C15_Witness ==
    /\ event = "startIgnored"
    /\ resetDuringRun
    /\ userMission # ""
    /\ timers # <<>>
    /\ simulationStep = 0

\* C16 as claimed: whenever a non-empty report is stored, the stage is 6.
C16_ReportOnlyAtCompletion ==
    (~missionReport.isNull /\ missionReport.text # "") => simulationStep = 6

\* C17: reset leaves the orchestrating and simulating flags as they are; after
\* a reset during a run a start request changes nothing while a flag is set;
\* and the simulating flag is cleared by nothing but the run's last callback.
C17_ResetKeepsBusy ==
    [][ /\ event' = "reset" =>
              (isSimulating' = isSimulating /\ isOrchestrating' = isOrchestrating)
        /\ (resetDuringRun /\ (isSimulating \/ isOrchestrating)
              /\ event' \in {"start", "startIgnored"}) =>
              (event' = "startIgnored" /\ UNCHANGED <<store, timers, planReq>>)
        /\ (isSimulating /\ ~isSimulating') =>
              (event' = "timer" /\ Len(timers) = 1 /\ timers[1].delay = 11500)
      ]_vars

\* A run was reset after its 8500 ms callback, and a start request made before
\* the last callback was ignored.
C17_Witness ==
    /\ event = "startIgnored"
    /\ resetDuringRun
    /\ isSimulating
    /\ Len(timers) = 1
    /\ \A i \in 1..5 : agents[i].status = "idle"

\* C18 as claimed: whenever the stage is 1 (plan applied, simulating), all five
\* agents are idle.
C18_IdleAtStageOne ==
    simulationStep = 1 =>
        /\ isSimulating
        /\ Len(agents) = 5
        /\ \A i \in 1..5 : agents[i].status = "idle"

====
